---------------------------- MODULE Spec2Model ----------------------------
(***************************************************************************)
(* delta-palette: the palette generator of src/lib/color.ts                *)
(* (generatePalette, distance, simulateByMode and the hex conversions) and  *)
(* the GET request handler that calls it.                                   *)
(*                                                                         *)
(* Number representation.                                                  *)
(*   - A Color channel (a float in [0,1]) is an integer in 0..510 standing *)
(*     for v/510: twice the resolution of a hex byte, so that rgbToHex     *)
(*     rounds and two Colors can share one hex string.                     *)
(*   - A hex string "#RRGGBB" is the triple of its bytes <<R, G, B>>.       *)
(*   - An Oklab coordinate is an integer in units of 1/10000.              *)
(*   - A Delta-E is held as its square, in units of 10^-8: Math.hypot is    *)
(*     monotone in the sum of squares, so every comparison the code makes   *)
(*     (>, <, >=, === 0) has the same outcome on the squares.               *)
(***************************************************************************)
EXTENDS Integers, Sequences, FiniteSets

VARIABLES
    pc,             \* where the request / generatePalette call stands
    searchParams,   \* GET: the query parameters of the request URL
    n,              \* generatePalette: argument n
    mode,           \* generatePalette: argument mode
    target,         \* generatePalette: const target
    rawCandidates,  \* generatePalette: rawCandidates
    candidates,     \* generatePalette: candidates
    palette,        \* generatePalette: palette
    eligibleLog,    \* foundEligible of each growth iteration so far
    result,         \* generatePalette: the returned string[]
    response,       \* GET: the palette of the JSON response
    dArgs,          \* distance: the arguments <<c1, c2, mode>> of a call
    dResult         \* distance: the value returned for dArgs

vars == <<pc, searchParams, n, mode, target, rawCandidates, candidates,
          palette, eligibleLog, result, response, dArgs, dResult>>

(***************************************************************************)
(* Bounds.  The program's sizes are far beyond exhaustive search, so the   *)
(* model scales them down, keeping their order: 1 <= DefaultCount <=        *)
(* MaxTarget < PoolSize.                                                    *)
(***************************************************************************)
\* stands for the 10,000 of `while (rawCandidates.length < 10000)`
PoolSize == 4
\* stands for the 25 of `Math.max(1, Math.min(n, 25))`
MaxTarget == 3
\* stands for the 5 of `parseInt(n, 10) || 5`
DefaultCount == 2

\* MIN_DELTA_E = 0.2, in Oklab units of 1/10000
MIN_DELTA_E == 2000
\* Infinity and -Infinity of the scans: above / below every squared Delta-E
Infinity == 2000000000
NegInfinity == -1

Modes == {"normal", "deuteranopia", "protanopia", "tritanopia", "both"}

Min(a, b) == IF a < b THEN a ELSE b
Max(a, b) == IF a > b THEN a ELSE b

(***************************************************************************)
(* The colours the random source is let to draw, and mid-gray.             *)
(***************************************************************************)
Red     == <<510, 0, 0>>       \* #ff0000
Redish  == <<509, 0, 0>>       \* a different Color that also formats #ff0000
Green   == <<0, 306, 0>>       \* #009900
Violet  == <<306, 102, 408>>   \* #9933cc
\* #060e22: too dark unsimulated, L is 0.2 under deuteranopia, kept only
\* under protanopia
Dusk    == <<12, 28, 68>>
\* #dbe1d2: L is 0.9 unsimulated, above 0.9 under every simulation
Pale    == <<438, 449, 420>>
Draws   == {Red, Redish, Green, Violet, Dusk, Pale}
midGray == <<255, 255, 255>>   \* { r: 0.5, g: 0.5, b: 0.5 }

(***************************************************************************)
(* Converters and formatters                                               *)
(***************************************************************************)
\* culori formatHex on one channel: Math.round(clamp(v, 0, 1) * 255)
Fixup(v) == (Max(0, Min(v, 510)) + 1) \div 2

rgbToHex(color) == <<Fixup(color[1]), Fixup(color[2]), Fixup(color[3])>>

\* culori parse("#RRGGBB"): each channel byte / 255
hexToRgb(hex) == <<2 * hex[1], 2 * hex[2], 2 * hex[3]>>

\* culori converter("oklab") on an sRGB colour (gamma decode, LMS matrix,
\* cube root, Oklab matrix), tabulated on the colours the runs meet
toOklab(c) ==
    CASE c = <<0, 198, 412>>    -> <<5170, -413, -1785>>
      [] c = <<0, 210, 364>>    -> <<5131, -496, -1368>>
      [] c = <<0, 306, 0>>      -> <<5917, -1597, 1226>>
      [] c = <<10, 50, 52>>     -> <<1972, -250, -89>>
      [] c = <<12, 28, 68>>     -> <<1688, -41, -436>>
      [] c = <<16, 46, 76>>     -> <<2000, -126, -346>>
      [] c = <<28, 44, 78>>     -> <<2020, -36, -361>>
      [] c = <<138, 282, 304>>  -> <<6015, -647, -352>>
      [] c = <<255, 255, 255>>  -> <<5982, 0, 0>>
      [] c = <<258, 252, 254>>  -> <<5960, 39, -4>>
      [] c = <<258, 252, 270>>  -> <<5987, 72, -119>>
      [] c = <<264, 184, 198>>  -> <<5192, 529, 70>>
      [] c = <<278, 246, 256>>  -> <<5991, 209, -11>>
      [] c = <<286, 252, 60>>   -> <<5917, -168, 1108>>
      [] c = <<296, 262, 0>>    -> <<6067, -223, 1242>>
      [] c = <<306, 102, 408>>  -> <<5420, 1497, -1696>>
      [] c = <<322, 240, 0>>    -> <<5971, 116, 1219>>
      [] c = <<330, 246, 68>>   -> <<6092, 167, 1122>>
      [] c = <<438, 449, 420>>  -> <<9000, -113, 169>>
      [] c = <<446, 440, 474>>  -> <<9019, 95, -212>>
      [] c = <<458, 442, 414>>  -> <<9001, 30, 205>>
      [] c = <<496, 428, 424>>  -> <<9040, 354, 142>>
      [] c = <<506, 46, 0>>     -> <<6291, 2176, 1262>>
      [] c = <<509, 0, 0>>      -> <<6270, 2245, 1257>>
      [] c = <<510, 0, 0>>      -> <<6280, 2249, 1258>>

(***************************************************************************)
(* CVD simulation: the color-blind package, hex in, hex out (projection    *)
(* along the dichromat's confusion line), tabulated on the hex values the   *)
(* runs meet.                                                               *)
(***************************************************************************)
blinderDeuteranopia(hex) ==
    CASE hex = <<0, 153, 0>>      -> <<165, 123, 34>>
      [] hex = <<6, 14, 34>>      -> <<8, 23, 38>>
      [] hex = <<128, 128, 128>>  -> <<139, 123, 128>>
      [] hex = <<153, 51, 204>>   -> <<0, 105, 182>>
      [] hex = <<219, 225, 210>>  -> <<248, 214, 212>>
      [] hex = <<255, 0, 0>>      -> <<161, 120, 0>>

blinderProtanopia(hex) ==
    CASE hex = <<0, 153, 0>>      -> <<148, 131, 0>>
      [] hex = <<6, 14, 34>>      -> <<14, 22, 39>>
      [] hex = <<128, 128, 128>>  -> <<129, 126, 127>>
      [] hex = <<153, 51, 204>>   -> <<0, 99, 206>>
      [] hex = <<219, 225, 210>>  -> <<229, 221, 207>>
      [] hex = <<255, 0, 0>>      -> <<143, 126, 30>>

blinderTritanopia(hex) ==
    CASE hex = <<0, 153, 0>>      -> <<69, 141, 152>>
      [] hex = <<6, 14, 34>>      -> <<5, 25, 26>>
      [] hex = <<128, 128, 128>>  -> <<129, 126, 135>>
      [] hex = <<153, 51, 204>>   -> <<132, 92, 99>>
      [] hex = <<219, 225, 210>>  -> <<223, 220, 237>>
      [] hex = <<255, 0, 0>>      -> <<253, 23, 0>>

simulateDeuteranopia(color) == hexToRgb(blinderDeuteranopia(rgbToHex(color)))

simulateProtanopia(color) == hexToRgb(blinderProtanopia(rgbToHex(color)))

simulateTritanopia(color) == hexToRgb(blinderTritanopia(rgbToHex(color)))

\* faulty variant of simulateByMode: the default branch simulates deuteranopia
simulateByMode_DefaultDeut(color, m) ==
    CASE m = "deuteranopia" -> simulateDeuteranopia(color)
      [] m = "protanopia"   -> simulateProtanopia(color)
      [] m = "tritanopia"   -> simulateTritanopia(color)
      [] m = "normal"       -> color
      [] m = "both"         -> color
      [] OTHER              -> simulateDeuteranopia(color)

\* the switch's default branch takes "normal", "both" and any other string
simulateByMode(color, m) ==
    CASE m = "deuteranopia" -> simulateDeuteranopia(color)
      [] m = "protanopia"   -> simulateProtanopia(color)
      [] m = "tritanopia"   -> simulateTritanopia(color)
      [] OTHER              -> color

(***************************************************************************)
(* Distance in Oklab space                                                 *)
(***************************************************************************)
\* Math.hypot(L1 - L2, a1 - a2, b1 - b2), as its square
deltaEoklab(lab1, lab2) ==
    (lab1[1] - lab2[1]) * (lab1[1] - lab2[1])
  + (lab1[2] - lab2[2]) * (lab1[2] - lab2[2])
  + (lab1[3] - lab2[3]) * (lab1[3] - lab2[3])

\* faulty variant of distance: only c1 is simulated
RECURSIVE distance_FirstOnly(_, _, _)
distance_FirstOnly(c1, c2, m) ==
    IF m = "both"
    THEN Min(distance_FirstOnly(c1, c2, "normal"),
             distance_FirstOnly(c1, c2, "deuteranopia"))
    ELSE deltaEoklab(toOklab(simulateByMode(c1, m)), toOklab(c2))

\* faulty variant of distance: mode both also takes the protanopia distance
distance_BothWithProtan(c1, c2, m) ==
    LET d(mm) == deltaEoklab(toOklab(simulateByMode(c1, mm)),
                             toOklab(simulateByMode(c2, mm)))
    IN  IF m = "both"
        THEN Min(d("normal"), Min(d("deuteranopia"), d("protanopia")))
        ELSE d(m)

RECURSIVE distance(_, _, _)
distance(c1, c2, m) ==
    IF m = "both"
    THEN LET dNormal == distance(c1, c2, "normal")
             dDeut   == distance(c1, c2, "deuteranopia")
         IN  Min(dNormal, dDeut)
    ELSE LET simC1 == simulateByMode(c1, m)
             simC2 == simulateByMode(c2, m)
             lab1  == toOklab(simC1)
             lab2  == toOklab(simC2)
         IN  deltaEoklab(lab1, lab2)


(***************************************************************************)
(* Palette generator: the scans of generatePalette                         *)
(***************************************************************************)
\* faulty variant of Splice: candidates.pop(), dropping the last entry
Splice_Pop(seq, i) == SubSeq(seq, 1, Len(seq) - 1)

\* faulty variant of Splice: every entry equal to the chosen one is dropped
Splice_DropsEqual(seq, i) == SelectSeq(seq, LAMBDA x : x # seq[i])

\* candidates.splice(i, 1), with i counted from 1
Splice(seq, i) == SubSeq(seq, 1, i - 1) \o SubSeq(seq, i + 1, Len(seq))

\* faulty variant of KeepsCandidate: the bounds themselves are let through
KeepsCandidate_Inclusive(candidate, m) ==
    LET simulated == simulateByMode(candidate, m)
        labSim    == toOklab(simulated)
    IN  labSim[1] >= 2000 /\ labSim[1] <= 9000

\* the lightness filter of the sampling loop
KeepsCandidate(candidate, m) ==
    LET simulated == simulateByMode(candidate, m)
        labSim    == toOklab(simulated)
    IN  labSim[1] > 2000 /\ labSim[1] < 9000

\* the seed scan: for (let i = 0; i < candidates.length; i++) { ... }
RECURSIVE SeedScan(_, _, _, _, _)
SeedScan(cands, m, i, seedIndex, bestDistFromGray) ==
    IF i > Len(cands)
    THEN seedIndex
    ELSE LET simGray == simulateByMode(midGray, m)
             labGray == toOklab(simGray)
             simC    == simulateByMode(cands[i], m)
             labC    == toOklab(simC)
             d       == deltaEoklab(labC, labGray)
         IN  IF d > bestDistFromGray
             THEN SeedScan(cands, m, i + 1, i, d)
             ELSE SeedScan(cands, m, i + 1, seedIndex, bestDistFromGray)

\* faulty variant of SeedIndex: a later entry as far from gray replaces the
\* earlier one
SeedIndex_LastOnTies(cands, m) ==
    LET d(i) == deltaEoklab(toOklab(simulateByMode(cands[i], m)),
                            toOklab(simulateByMode(midGray, m)))
    IN  CHOOSE k \in 1..Len(cands) :
            /\ \A j \in 1..Len(cands) : d(j) <= d(k)
            /\ \A j \in (k + 1)..Len(cands) : d(j) < d(k)

SeedIndex(cands, m) == SeedScan(cands, m, 1, 1, NegInfinity)

\* the body of the inner loop: simulate c and p under the mode, convert both
\* to Oklab, take their Delta-E
SimDeltaE(c, p, m) ==
    LET simC == simulateByMode(c, m)
        simP == simulateByMode(p, m)
        labC == toOklab(simC)
        labP == toOklab(simP)
    IN  deltaEoklab(labC, labP)

\* the inner loop: for (const p of palette) { ... if (=== 0) break; }
RECURSIVE MinDEScan(_, _, _, _, _)
MinDEScan(c, pal, m, j, minDEtoPalette) ==
    IF j > Len(pal)
    THEN minDEtoPalette
    ELSE LET d == SimDeltaE(c, pal[j], m)
         IN  IF d < minDEtoPalette
             THEN IF d = 0 THEN d ELSE MinDEScan(c, pal, m, j + 1, d)
             ELSE MinDEScan(c, pal, m, j + 1, minDEtoPalette)

\* faulty variant of MinDEtoPalette: the scan stops after the first colour
MinDEtoPalette_FirstOnly(c, pal, m) == SimDeltaE(c, pal[1], m)

MinDEtoPalette(c, pal, m) == MinDEScan(c, pal, m, 1, Infinity)

\* faulty variant of MeetsFloor: the comparison is the wrong way round
MeetsFloor_Below(minDE) == minDE < MIN_DELTA_E * MIN_DELTA_E

\* faulty variant of MeetsFloor: compares against 0 instead of MIN_DELTA_E
MeetsFloor_Zero(minDE) == minDE >= 0

\* the floor test: if (minDEtoPalette >= MIN_DELTA_E)
MeetsFloor(minDE) == minDE >= MIN_DELTA_E * MIN_DELTA_E

\* faulty variant of ScanStep: the first candidate that meets the floor is
\* kept as the best one
ScanStep_FirstEligible(s, i, minDE) ==
    LET s1 == IF minDE > s.fallbackMinDE
              THEN [s EXCEPT !.fallbackMinDE = minDE, !.fallbackIndex = i]
              ELSE s
    IN  IF minDE >= 2000 * 2000 /\ ~s1.foundEligible
        THEN [s1 EXCEPT !.foundEligible = TRUE, !.bestMinimumDE = minDE,
                        !.bestCandidateIndex = i]
        ELSE s1

\* faulty variant of ScanStep: the comparison with bestMinimumDE is the wrong
\* way round, so the eligible candidate nearest to the palette is kept
ScanStep_KeepsSmallest(s, i, minDE) ==
    LET s1 == IF minDE > s.fallbackMinDE
              THEN [s EXCEPT !.fallbackMinDE = minDE, !.fallbackIndex = i]
              ELSE s
    IN  IF minDE >= 2000 * 2000
           /\ (~s1.foundEligible \/ minDE < s1.bestMinimumDE)
        THEN [s1 EXCEPT !.foundEligible = TRUE, !.bestMinimumDE = minDE,
                        !.bestCandidateIndex = i]
        ELSE s1

\* faulty variant of ScanStep: both comparisons are >=, so a later candidate
\* with an equal minimum replaces the earlier one
ScanStep_LastOnTies(s, i, minDE) ==
    LET s1 == IF minDE >= s.fallbackMinDE
              THEN [s EXCEPT !.fallbackMinDE = minDE, !.fallbackIndex = i]
              ELSE s
    IN  IF minDE >= 2000 * 2000
           /\ (~s1.foundEligible \/ minDE >= s1.bestMinimumDE)
        THEN [s1 EXCEPT !.foundEligible = TRUE, !.bestMinimumDE = minDE,
                        !.bestCandidateIndex = i]
        ELSE s1

\* faulty variant of ChosenIndex: no fallback
ChosenIndex_NoFallback(s) == s.bestCandidateIndex

\* the locals of one pass of the greedy loop, before any candidate is seen
ScanStart ==
    [bestCandidateIndex |-> 1, bestMinimumDE |-> NegInfinity,
     foundEligible |-> FALSE,
     fallbackIndex |-> 1, fallbackMinDE |-> NegInfinity]

\* what one candidate does to the locals
ScanStep(s, i, minDE) ==
    LET s1 == IF minDE > s.fallbackMinDE
              THEN [s EXCEPT !.fallbackMinDE = minDE, !.fallbackIndex = i]
              ELSE s
    IN  IF MeetsFloor(minDE)
           /\ (~s1.foundEligible \/ minDE > s1.bestMinimumDE)
        THEN [s1 EXCEPT !.foundEligible = TRUE, !.bestMinimumDE = minDE,
                        !.bestCandidateIndex = i]
        ELSE s1

\* the outer scan: for (let i = 0; i < candidates.length; i++) { ... }
RECURSIVE GrowScan(_, _, _, _, _)
GrowScan(cands, pal, m, i, s) ==
    IF i > Len(cands)
    THEN s
    ELSE GrowScan(cands, pal, m, i + 1,
                  ScanStep(s, i, MinDEtoPalette(cands[i], pal, m)))

\* const chosenIndex = foundEligible ? bestCandidateIndex : fallbackIndex
ChosenIndex(s) ==
    IF s.foundEligible THEN s.bestCandidateIndex ELSE s.fallbackIndex

\* faulty variant of MapToHex: the last colour chosen comes first
MapToHex_Reversed(pal) ==
    [k \in 1..Len(pal) |-> rgbToHex(pal[Len(pal) + 1 - k])]

\* palette.map((c) => rgbToHex(c))
MapToHex(pal) == [k \in 1..Len(pal) |-> rgbToHex(pal[k])]

(***************************************************************************)
(* The greedy loop of the earlier version of the generator                 *)
(* (src/unnamed/part_003): no floor, each candidate scored by distance.     *)
(***************************************************************************)
\* the earlier distance: normal, deuteranopia, and the minimum of the two for
\* every other mode
earlierDistance(c1, c2, m) ==
    LET dN == deltaEoklab(toOklab(c1), toOklab(c2))
        dD == deltaEoklab(toOklab(simulateDeuteranopia(c1)),
                          toOklab(simulateDeuteranopia(c2)))
    IN  IF m = "normal" THEN dN
        ELSE IF m = "deuteranopia" THEN dD
        ELSE Min(dN, dD)

\* for (const p of palette) { ... if (d < minD) { minD = d; if (!minD) break } }
RECURSIVE EarlierMinD(_, _, _, _, _)
EarlierMinD(c, pal, m, j, minD) ==
    IF j > Len(pal)
    THEN minD
    ELSE LET d == earlierDistance(c, pal[j], m)
         IN  IF d < minD
             THEN IF d = 0 THEN d ELSE EarlierMinD(c, pal, m, j + 1, d)
             ELSE EarlierMinD(c, pal, m, j + 1, minD)

\* for (const c of candidates) { ... if (minD > bestD) { bestD = minD; best = c } }
\* best is held as the index of the object it refers to
RECURSIVE EarlierBestScan(_, _, _, _, _, _)
EarlierBestScan(cands, pal, m, i, best, bestD) ==
    IF i > Len(cands)
    THEN best
    ELSE LET minD == EarlierMinD(cands[i], pal, m, 1, Infinity)
         IN  IF minD > bestD
             THEN EarlierBestScan(cands, pal, m, i + 1, i, minD)
             ELSE EarlierBestScan(cands, pal, m, i + 1, best, bestD)

\* candidates.indexOf(best) after the scan
EarlierBest(cands, pal, m) ==
    EarlierBestScan(cands, pal, m, 1, 1, NegInfinity)

(***************************************************************************)
(* generatePalette(n, mode), one action per step                           *)
(***************************************************************************)
\* faulty variant of ClampTarget: no upper end
ClampTarget_NoUpper(x) == Max(1, x)

\* Math.max(1, Math.min(n, 25))
ClampTarget(x) == Max(1, Min(x, MaxTarget))

\* const target = Math.max(1, Math.min(n, 25));  const rawCandidates = []
Clamp ==
    /\ pc = "call"
    /\ target' = ClampTarget(n)
    /\ rawCandidates' = <<>>
    /\ pc' = "sampling"
    /\ UNCHANGED <<searchParams, n, mode, candidates, palette, eligibleLog,
                   result, response, dArgs, dResult>>

\* one pass of the sampling loop: draw a candidate, keep it or drop it
Sample ==
    /\ pc = "sampling"
    /\ Len(rawCandidates) < PoolSize
    /\ \E candidate \in Draws :
          rawCandidates' = IF KeepsCandidate(candidate, mode)
                           THEN Append(rawCandidates, candidate)
                           ELSE rawCandidates
    /\ UNCHANGED <<pc, searchParams, n, mode, target, candidates, palette,
                   eligibleLog, result, response, dArgs, dResult>>

\* faulty variant of Seed: the sampling loop is left one entry early
Seed_OneShort ==
    /\ pc = "sampling"
    /\ ~(Len(rawCandidates) < PoolSize - 1)
    /\ LET seedIndex == SeedIndex(rawCandidates, mode)
       IN  /\ palette' = <<rawCandidates[seedIndex]>>
           /\ candidates' = Splice(rawCandidates, seedIndex)
    /\ eligibleLog' = <<>>
    /\ pc' = "grow"
    /\ UNCHANGED <<searchParams, n, mode, target, rawCandidates, result,
                   response, dArgs, dResult>>

\* faulty variant of Seed: when a single colour is asked for, the seed scan is
\* skipped and the first entry of the pool is taken
Seed_SingleShortcut ==
    /\ pc = "sampling"
    /\ ~(Len(rawCandidates) < PoolSize)
    /\ LET seedIndex == IF target = 1 THEN 1 ELSE SeedIndex(rawCandidates, mode)
       IN  /\ palette' = <<rawCandidates[seedIndex]>>
           /\ candidates' = Splice(rawCandidates, seedIndex)
    /\ eligibleLog' = <<>>
    /\ pc' = "grow"
    /\ UNCHANGED <<searchParams, n, mode, target, rawCandidates, result,
                   response, dArgs, dResult>>

\* copy the pool, pick the seed farthest from mid-gray, move it to the palette
Seed ==
    /\ pc = "sampling"
    /\ ~(Len(rawCandidates) < PoolSize)
    /\ LET seedIndex == SeedIndex(rawCandidates, mode)
       IN  /\ palette' = <<rawCandidates[seedIndex]>>
           /\ candidates' = Splice(rawCandidates, seedIndex)
    /\ eligibleLog' = <<>>
    /\ pc' = "grow"
    /\ UNCHANGED <<searchParams, n, mode, target, rawCandidates, result,
                   response, dArgs, dResult>>

\* faulty variant of Grow: the loop tests only candidates.length > 0
Grow_IgnoresTarget ==
    /\ pc = "grow"
    /\ Len(candidates) > 0
    /\ LET s == GrowScan(candidates, palette, mode, 1, ScanStart)
           chosenIndex == ChosenIndex(s)
       IN  /\ palette' = Append(palette, candidates[chosenIndex])
           /\ candidates' = Splice(candidates, chosenIndex)
           /\ eligibleLog' = Append(eligibleLog, s.foundEligible)
    /\ UNCHANGED <<pc, searchParams, n, mode, target, rawCandidates, result,
                   response, dArgs, dResult>>

\* faulty variant of Grow: the chosen entry is not spliced out of the pool
Grow_NoSplice ==
    /\ pc = "grow"
    /\ Len(palette) < target /\ Len(candidates) > 0
    /\ LET s == GrowScan(candidates, palette, mode, 1, ScanStart)
           chosenIndex == ChosenIndex(s)
       IN  /\ palette' = Append(palette, candidates[chosenIndex])
           /\ eligibleLog' = Append(eligibleLog, s.foundEligible)
    /\ UNCHANGED <<pc, searchParams, n, mode, target, rawCandidates,
                   candidates, result, response, dArgs, dResult>>

\* one pass of the greedy loop
Grow ==
    /\ pc = "grow"
    /\ Len(palette) < target /\ Len(candidates) > 0
    /\ LET s == GrowScan(candidates, palette, mode, 1, ScanStart)
           chosenIndex == ChosenIndex(s)
       IN  /\ palette' = Append(palette, candidates[chosenIndex])
           /\ candidates' = Splice(candidates, chosenIndex)
           /\ eligibleLog' = Append(eligibleLog, s.foundEligible)
    /\ UNCHANGED <<pc, searchParams, n, mode, target, rawCandidates, result,
                   response, dArgs, dResult>>

\* the loop is over: return palette.map((c) => rgbToHex(c))
Return ==
    /\ pc = "grow"
    /\ ~(Len(palette) < target /\ Len(candidates) > 0)
    /\ result' = MapToHex(palette)
    /\ pc' = "done"
    /\ UNCHANGED <<searchParams, n, mode, target, rawCandidates, candidates,
                   palette, eligibleLog, response, dArgs, dResult>>

(***************************************************************************)
(* A direct call generatePalette(n, mode), as the page's Generate button    *)
(* makes it.                                                                *)
(***************************************************************************)
\* the values of n tried: below, inside and above 1..MaxTarget
NArgs == -1 .. MaxTarget + 1

NoParams == [k \in {} |-> <<>>]

Init ==
    /\ pc = "call"
    /\ searchParams = NoParams
    /\ n \in NArgs
    /\ mode \in Modes
    /\ target = 0
    /\ rawCandidates = <<>>
    /\ candidates = <<>>
    /\ palette = <<>>
    /\ eligibleLog = <<>>
    /\ result = <<>>
    /\ response = <<>>
    /\ dArgs = <<>>
    /\ dResult = 0

Next == Clamp \/ Sample \/ Seed \/ Grow \/ Return

Spec == Init /\ [][Next]_vars

(***************************************************************************)
(* The call under fairness: it keeps running, and the random source keeps  *)
(* giving draws that the filter accepts (a rejected draw changes nothing,   *)
(* so a <<Sample>>_vars step is an accepted draw).                          *)
(* Fairness is asked of SeedAny and GrowAny, the steps of Seed and Grow     *)
(* with the entry they pick left open: each is enabled exactly when Seed,   *)
(* Grow is, and a step of Next is a SeedAny, GrowAny step exactly when it   *)
(* is a Seed, Grow step, so WF_vars(NextAny) is WF_vars(Next) on the        *)
(* behaviours of Spec.                                                      *)
(***************************************************************************)
SeedAny ==
    /\ pc = "sampling"
    /\ ~(Len(rawCandidates) < PoolSize)
    /\ \E k \in 1..Len(rawCandidates) :
          /\ palette' = <<rawCandidates[k]>>
          /\ candidates' = Splice(rawCandidates, k)
    /\ eligibleLog' = <<>>
    /\ pc' = "grow"
    /\ UNCHANGED <<searchParams, n, mode, target, rawCandidates, result,
                   response, dArgs, dResult>>

GrowAny ==
    /\ pc = "grow"
    /\ Len(palette) < target /\ Len(candidates) > 0
    /\ \E k \in 1..Len(candidates) :
          /\ palette' = Append(palette, candidates[k])
          /\ candidates' = Splice(candidates, k)
    /\ \E foundEligible \in BOOLEAN :
          eligibleLog' = Append(eligibleLog, foundEligible)
    /\ UNCHANGED <<pc, searchParams, n, mode, target, rawCandidates, result,
                   response, dArgs, dResult>>

NextAny == Clamp \/ Sample \/ SeedAny \/ GrowAny \/ Return

SpecFair == Init /\ [][Next]_vars /\ WF_vars(NextAny)


(***************************************************************************)
(* A call distance(c1, c2, mode) of the exported metric                    *)
(***************************************************************************)
Distance ==
    /\ pc = "distance"
    /\ dResult' = distance(dArgs[1], dArgs[2], dArgs[3])
    /\ pc' = "distanceDone"
    /\ UNCHANGED <<searchParams, n, mode, target, rawCandidates, candidates,
                   palette, eligibleLog, result, response, dArgs>>

InitDistance ==
    /\ pc = "distance"
    /\ dArgs \in Draws \X Draws \X Modes
    /\ dResult = 0
    /\ searchParams = NoParams
    /\ n = 0
    /\ mode = "normal"
    /\ target = 0
    /\ rawCandidates = <<>>
    /\ candidates = <<>>
    /\ palette = <<>>
    /\ eligibleLog = <<>>
    /\ result = <<>>
    /\ response = <<>>

NextDistance == Distance

SpecDistance == InitDistance /\ [][NextDistance]_vars

(***************************************************************************)
(* The request handler GET: /...?n=<size>&mode=<mode>                       *)
(* A query value is a sequence of one-character strings.                    *)
(***************************************************************************)
DigitValue(ch) ==
    CASE ch = "0" -> 0 [] ch = "1" -> 1 [] ch = "2" -> 2 [] ch = "3" -> 3
      [] ch = "4" -> 4 [] ch = "5" -> 5 [] ch = "6" -> 6 [] ch = "7" -> 7
      [] ch = "8" -> 8 [] ch = "9" -> 9

IsDigit(ch) == ch \in {"0", "1", "2", "3", "4", "5", "6", "7", "8", "9"}

\* parseInt step 1: skip leading white space
RECURSIVE TrimStart(_)
TrimStart(str) ==
    IF Len(str) > 0 /\ str[1] = " " THEN TrimStart(Tail(str)) ELSE str

\* parseInt: the longest prefix of digits, read in base 10; seen says whether
\* there was any digit
RECURSIVE ReadDigits(_, _, _)
ReadDigits(str, value, seen) ==
    IF Len(str) > 0 /\ IsDigit(str[1])
    THEN ReadDigits(Tail(str), 10 * value + DigitValue(str[1]), TRUE)
    ELSE [nan |-> ~seen, value |-> value]

\* parseInt(str, 10): white space, an optional sign, digits; NaN without digits
parseInt(str) ==
    LET t      == TrimStart(str)
        signed == Len(t) > 0 /\ t[1] \in {"+", "-"}
        sign   == IF Len(t) > 0 /\ t[1] = "-" THEN -1 ELSE 1
        r      == ReadDigits(IF signed THEN Tail(t) ELSE t, 0, FALSE)
    IN  [nan |-> r.nan, value |-> sign * r.value]

\* faulty variant of CountOf: parseInt(n, 10) || 1
CountOf_FallbackOne(str) ==
    LET r == parseInt(str)
    IN  IF r.nan \/ r.value = 0 THEN 1 ELSE r.value

\* parseInt(n, 10) || 5: NaN and 0 are falsy
CountOf(str) ==
    LET r == parseInt(str)
    IN  IF r.nan \/ r.value = 0 THEN DefaultCount ELSE r.value

\* (searchParams.get("mode") as Mode) ?? "normal"
ModeOf(params) ==
    IF "mode" \in DOMAIN params THEN params["mode"] ELSE "normal"

\* searchParams.get("n") ?? ""
SizeOf(params) ==
    IF "n" \in DOMAIN params THEN params["n"] ELSE <<>>

\* the handler up to its call of generatePalette(count, mode)
GET ==
    /\ pc = "GET"
    /\ n' = CountOf(SizeOf(searchParams))
    /\ mode' = ModeOf(searchParams)
    /\ pc' = "call"
    /\ UNCHANGED <<searchParams, target, rawCandidates, candidates, palette,
                   eligibleLog, result, response, dArgs, dResult>>

\* return NextResponse.json({ palette })
Respond ==
    /\ pc = "done"
    /\ response' = result
    /\ pc' = "responded"
    /\ UNCHANGED <<searchParams, n, mode, target, rawCandidates, candidates,
                   palette, eligibleLog, result, dArgs, dResult>>

\* the values of n= tried: "", "0", "3", "9", "-1", "3x", "x", " 1"
SizeParams ==
    {<<>>, <<"0">>, <<"3">>, <<"9">>, <<"-", "1">>, <<"3", "x">>, <<"x">>,
     <<" ", "1">>}

\* the values of mode= tried: the five modes and a string that is none of them
ModeParams == Modes \cup {"purple"}

Requests ==
    {[k \in {"n", "mode"} |-> IF k = "n" THEN sz ELSE md] :
        sz \in SizeParams, md \in ModeParams}
    \cup {[k \in {"n"} |-> sz] : sz \in SizeParams}
    \cup {[k \in {"mode"} |-> md] : md \in ModeParams}
    \cup {NoParams}

InitGET ==
    /\ pc = "GET"
    /\ searchParams \in Requests
    /\ n = 0
    /\ mode = "normal"
    /\ target = 0
    /\ rawCandidates = <<>>
    /\ candidates = <<>>
    /\ palette = <<>>
    /\ eligibleLog = <<>>
    /\ result = <<>>
    /\ response = <<>>
    /\ dArgs = <<>>
    /\ dResult = 0

NextGET == GET \/ Clamp \/ Sample \/ Seed \/ Grow \/ Return \/ Respond

SpecGET == InitGET /\ [][NextGET]_vars

(***************************************************************************)
(* Properties of a generatePalette call                                    *)
(***************************************************************************)
\* the number of entries of seq equal to x
Count(seq, x) == Cardinality({k \in 1..Len(seq) : seq[k] = x})

\* the Delta-E of a and b as mode m alone sees them
SeenDeltaE(a, b, m) ==
    deltaEoklab(toOklab(simulateByMode(a, m)), toOklab(simulateByMode(b, m)))

\* d, a squared Delta-E, is at least 0.2
AtLeastFloor(d) == d >= 2000 * 2000

\* C1: for every integer n and every mode the call returns exactly
\* clamp(n, 1, MaxTarget) hex strings; the full pool always supplies them.
C1_Cardinality ==
    pc = "done" =>
        /\ Len(rawCandidates) >= MaxTarget
        /\ Len(result) = (IF n < 1 THEN 1 ELSE IF n > MaxTarget THEN MaxTarget ELSE n)

\* C1 witness: a call with n above the range has returned MaxTarget strings
C1_Witness == pc = "done" /\ n > MaxTarget /\ Len(result) = MaxTarget

C3_OnlyLastMayFallBelow ==
    (pc = "done" /\ mode = "normal") =>
        \A i, j \in 1..(Len(palette) - 1) :
            i < j => AtLeastFloor(distance(palette[i], palette[j], "normal"))

\* C3 amended: under mode normal every pair of colours that were both added
\* before the first fallback step is at least 0.2 apart in Normal distance;
\* the first fallback step can be any growth step, not only the last.
C3_FloorBeforeFirstFallback ==
    mode = "normal" =>
        \A j \in 2..Len(palette) :
            (\A k \in 1..(j - 1) : eligibleLog[k]) =>
                \A i \in 1..(j - 1) :
                    AtLeastFloor(distance(palette[i], palette[j], "normal"))

\* C3 witness: a normal-mode palette of three colours, all above the floor
C3_Witness ==
    /\ pc = "done"
    /\ mode = "normal"
    /\ Len(palette) >= 3
    /\ \A k \in 1..Len(eligibleLog) : eligibleLog[k]

\* min over p in pal of distance(c, p, m), taken left to right
RECURSIVE MinDistance(_, _, _, _)
MinDistance(c, pal, m, j) ==
    IF j > Len(pal)
    THEN Infinity
    ELSE Min(distance(c, pal[j], m), MinDistance(c, pal, m, j + 1))

\* the greedy scan with each candidate scored by distance(c, p, m)
RECURSIVE DistanceScan(_, _, _, _, _)
DistanceScan(cands, pal, m, i, s) ==
    IF i > Len(cands)
    THEN s
    ELSE DistanceScan(cands, pal, m, i + 1,
                      ScanStep(s, i, MinDistance(cands[i], pal, m, 1)))

\* C4: in mode both each growth step scores a candidate by the minimum over
\* the palette of distance(c, p, both) and adds the colour chosen on that
\* score.
C4_BothScoredByDistance ==
    [][(pc = "grow" /\ mode = "both" /\ Len(palette') = Len(palette) + 1) =>
          palette'[Len(palette')] =
              candidates[ChosenIndex(DistanceScan(candidates, palette, "both",
                                                  1, ScanStart))]]_vars

\* C5 as claimed: the returned colours are pairwise distinct Color values.
C5_PairwiseDistinct ==
    pc = "done" =>
        \A i, j \in 1..Len(palette) : i < j => palette[i] # palette[j]

\* C5 amended: no pool entry is selected twice, so a Color value occurs in
\* the palette at most as often as it occurs in the sampled pool; the palette
\* is pairwise distinct whenever the sampled pool is.
C5_NoEntrySelectedTwice ==
    pc \in {"grow", "done"} =>
        \A c \in Draws : Count(palette, c) <= Count(rawCandidates, c)

\* C5 witness: a returned palette holding one Color value twice
C5_Witness ==
    /\ pc = "done"
    /\ \E i, j \in 1..Len(palette) : i < j /\ palette[i] = palette[j]


\* C12: during a build the palette never holds more colours than the clamped
\* target, and the build ends with exactly min(target, size of the sampled
\* pool) colours, returned as that many hex strings.
C12_SizeWithinTarget ==
    /\ pc \in {"sampling", "grow", "done"} => Len(palette) <= target
    /\ pc = "done" =>
          LET poolSizeAtStart == Len(rawCandidates)
              expected == IF target < poolSizeAtStart THEN target
                          ELSE poolSizeAtStart
          IN  Len(palette) = expected /\ Len(result) = expected

\* C12 witness: a build for the largest target has ended, with the rest of
\* the pool left over
C12_Witness ==
    /\ pc = "done"
    /\ target = MaxTarget
    /\ Len(palette) = target
    /\ Len(candidates) = Len(rawCandidates) - target
    /\ Len(candidates) > 0

\* the lightness of c as mode m sees it, in 1/10000
SeenLightness(c, m) == toOklab(simulateByMode(c, m))[1]

Without(seq, k) ==
    [i \in 1..(Len(seq) - 1) |-> IF i < k THEN seq[i] ELSE seq[i + 1]]

\* C15: the seed, the first palette colour, is the pool entry that mode sees
\* farthest from mid-gray as mode sees it; of several entries at that largest
\* distance it is the first in pool order; and seeding removes that entry
\* from the pool.
C15_SeedFarthestFromGray ==
    pc \in {"grow", "done"} =>
        \E k \in 1..Len(rawCandidates) :
            /\ \A j \in 1..Len(rawCandidates) :
                  SeenDeltaE(rawCandidates[j], midGray, mode)
                      <= SeenDeltaE(rawCandidates[k], midGray, mode)
            /\ \A j \in 1..(k - 1) :
                  SeenDeltaE(rawCandidates[j], midGray, mode)
                      < SeenDeltaE(rawCandidates[k], midGray, mode)
            /\ palette[1] = rawCandidates[k]
            /\ eligibleLog = <<>> => candidates = Without(rawCandidates, k)

\* C15 witness: seeding has just taken the first of two different colours of
\* the pool that are equally far from gray, and farther than all others
C15_Witness ==
    /\ pc = "grow"
    /\ eligibleLog = <<>>
    /\ \E i, j \in 1..Len(rawCandidates) :
          /\ i < j
          /\ rawCandidates[i] # rawCandidates[j]
          /\ SeenDeltaE(rawCandidates[i], midGray, mode)
                = SeenDeltaE(rawCandidates[j], midGray, mode)
          /\ \A h \in 1..Len(rawCandidates) :
                SeenDeltaE(rawCandidates[h], midGray, mode)
                    <= SeenDeltaE(rawCandidates[i], midGray, mode)
          /\ \A h \in 1..(i - 1) :
                SeenDeltaE(rawCandidates[h], midGray, mode)
                    < SeenDeltaE(rawCandidates[i], midGray, mode)
          /\ palette = <<rawCandidates[i]>>
          /\ candidates = Without(rawCandidates, i)

\* minDist: the least Delta-E, as mode m sees them, of c to a colour of pal
MinSeen(c, pal, m) ==
    LET ds == {SeenDeltaE(c, pal[j], m) : j \in 1..Len(pal)}
    IN  CHOOSE d \in ds : \A e \in ds : d <= e

\* index k holds the first of the candidates with the largest minDist
FirstLargest(cands, pal, m, k) ==
    /\ \A j \in 1..Len(cands) :
          MinSeen(cands[j], pal, m) <= MinSeen(cands[k], pal, m)
    /\ \A j \in 1..(k - 1) :
          MinSeen(cands[j], pal, m) < MinSeen(cands[k], pal, m)

\* the step moves candidate k to the end of the palette
Moves(k) ==
    /\ palette' = palette \o <<candidates[k]>>
    /\ candidates' = Without(candidates, k)

C17_FallbackTakesLargest ==
    /\ [][(/\ pc = "grow"
            /\ Len(palette') > Len(palette)
            /\ \A j \in 1..Len(candidates) :
                  MinSeen(candidates[j], palette, mode) < 2000 * 2000)
           => \E k \in 1..Len(candidates) :
                  /\ FirstLargest(candidates, palette, mode, k)
                  /\ Moves(k)]_vars
    /\ [](pc = "grow" /\ Len(palette) < target /\ Len(candidates) > 0
             => ChosenIndex(GrowScan(candidates, palette, mode, 1, ScanStart))
                    \in 1..Len(candidates))

\* C17 witness: the second growth step found no candidate at 0.2 or more,
\* added a colour closer than that, and left a colour that was closer still
C17_Witness ==
    /\ pc \in {"grow", "done"}
    /\ Len(palette) = 3
    /\ eligibleLog[2] = FALSE
    /\ MinSeen(palette[3], SubSeq(palette, 1, 2), mode) < 2000 * 2000
    /\ \E j \in 1..Len(candidates) :
          MinSeen(candidates[j], SubSeq(palette, 1, 2), mode)
              < MinSeen(palette[3], SubSeq(palette, 1, 2), mode)

\* the entries of seq at the indices in S, in their order
RECURSIVE Kept(_, _, _)
Kept(seq, S, i) ==
    IF i > Len(seq)
    THEN <<>>
    ELSE (IF i \in S THEN <<seq[i]>> ELSE <<>>) \o Kept(seq, S, i + 1)

\* C18: selection only moves entries from the pool to the palette.  After
\* sampling, in every state, the pool is the sampled pool less a set of its
\* indices, in the sampled order, the palette holds exactly the entries at
\* those indices, one palette colour for each index, and so
\* |palette| + |pool| is the sampled pool's size; and every step that adds a
\* colour removes one pool entry, the one added, and nothing else.
C18_MovesPoolToPalette ==
    /\ [](pc \in {"grow", "done"} =>
            /\ Len(palette) + Len(candidates) = Len(rawCandidates)
            /\ \E S \in SUBSET (1..Len(rawCandidates)) :
                  /\ candidates = Kept(rawCandidates, S, 1)
                  /\ LET taken ==
                            Kept(rawCandidates, (1..Len(rawCandidates)) \ S, 1)
                     IN  \A c \in Draws : Count(palette, c) = Count(taken, c))
    /\ [][(pc = "grow" /\ palette' # palette) =>
              \E k \in 1..Len(candidates) : Moves(k)]_vars

\* C18 witness: a build has ended whose pool held a colour twice, one of the
\* two entries now in the palette and the other still in the pool
C18_Witness ==
    /\ pc = "done"
    /\ Len(palette) >= 2
    /\ Len(palette) + Len(candidates) = PoolSize
    /\ \E i \in 1..Len(palette), j \in 1..Len(candidates) :
          palette[i] = candidates[j]

\* C19: the palette is append-only: a step that changes it appends exactly
\* one colour at the end and leaves the earlier entries where they are; and
\* the hex strings returned are the palette's colours in the order they were
\* chosen, the seed first.
C19_AppendOnlyInOrder ==
    /\ [][palette' # palette =>
              /\ Len(palette') = Len(palette) + 1
              /\ \A k \in 1..Len(palette) : palette'[k] = palette[k]]_vars
    /\ [](pc = "done" =>
              /\ Len(result) = Len(palette)
              /\ \A k \in 1..Len(palette) : result[k] = rgbToHex(palette[k]))

\* C19 witness: a call has returned three hex strings, the seed's first and
\* a different one last
C19_Witness ==
    /\ pc = "done"
    /\ Len(result) = 3
    /\ result[1] = rgbToHex(palette[1])
    /\ result[3] # result[1]

\* C20: once sampling has finished the greedy growth phase ends.  Each of its
\* iterations is taken only while the palette is below the target and the
\* pool is not empty, lengthens the palette by one and shortens the pool by
\* one; there are at most target - 1 of them; and the phase is left, with
\* palette and pool as they are, as soon as the palette has target colours or
\* the pool is empty.
C20_GrowthTerminates ==
    /\ (pc = "grow") ~> (pc = "done")
    /\ [](pc \in {"grow", "done"} => Len(eligibleLog) <= target - 1)
    /\ [][pc = "grow" =>
            \/ /\ Len(palette) < target /\ Len(candidates) > 0
               /\ pc' = "grow"
               /\ Len(palette') = Len(palette) + 1
               /\ Len(candidates') = Len(candidates) - 1
               /\ Len(eligibleLog') = Len(eligibleLog) + 1
            \/ /\ Len(palette) = target \/ Len(candidates) = 0
               /\ pc' = "done"
               /\ palette' = palette /\ candidates' = candidates]_vars

\* C20 witness: the growth phase has ended after MaxTarget - 1 iterations
C20_Witness ==
    /\ pc = "done"
    /\ target = MaxTarget
    /\ Len(eligibleLog) = MaxTarget - 1
    /\ Len(candidates) = PoolSize - MaxTarget

\* C21: the MIN_DELTA_E floor never changes which colour is chosen: every
\* growth step, whether it found a candidate at 0.2 or more or fell back,
\* adds the first candidate in pool order with the largest minDist of all,
\* which is what a greedy maximin loop without a floor adds; under the modes
\* the earlier version of the generator knows, normal and deuteranopia, it
\* is the entry that version's loop picks from the same palette and pool.
C21_FloorNeverChangesChoice ==
    [][(pc = "grow" /\ Len(palette') > Len(palette)) =>
          \E k \in 1..Len(candidates) :
              /\ FirstLargest(candidates, palette, mode, k)
              /\ Moves(k)
              /\ mode \in {"normal", "deuteranopia"} =>
                    k = EarlierBest(candidates, palette, mode)]_vars

\* C21 witness: the first growth step has added a colour at 0.2 or more from
\* the seed, leaving in the pool a colour below 0.2 and a colour at 0.2 or
\* more that is nearer than the one added
C21_Witness ==
    /\ pc \in {"grow", "done"}
    /\ mode \in {"normal", "deuteranopia"}
    /\ Len(palette) = 2
    /\ eligibleLog = <<TRUE>>
    /\ \E i, j \in 1..Len(candidates) :
          /\ SeenDeltaE(candidates[i], palette[1], mode) < 2000 * 2000
          /\ SeenDeltaE(candidates[j], palette[1], mode) >= 2000 * 2000
          /\ SeenDeltaE(candidates[j], palette[1], mode)
                < SeenDeltaE(palette[2], palette[1], mode)

\* C22: the fallback is absorbing: once a growth step has found no candidate
\* with minDist of at least 0.2, no later growth step of the build finds one,
\* and every colour added from that step on is closer than 0.2 to a colour
\* that was in the palette before it.
C22_FallbackAbsorbing ==
    \A i \in 1..Len(eligibleLog) :
        ~eligibleLog[i] =>
            \A j \in i..Len(eligibleLog) :
                /\ ~eligibleLog[j]
                /\ MinSeen(palette[j + 1], SubSeq(palette, 1, j), mode)
                      < 2000 * 2000

\* C22 witness: a build has ended whose first growth step fell back and was
\* followed by another growth step
C22_Witness ==
    /\ pc = "done"
    /\ Len(eligibleLog) >= 2
    /\ ~eligibleLog[1]
    /\ ~eligibleLog[2]
    /\ Len(candidates) > 0

\* the minDist the j-th palette colour had to the palette it joined
JoinedAt(j) == MinSeen(palette[j], SubSeq(palette, 1, j - 1), mode)

\* the least Delta-E, as mode m sees them, between two entries of pal
MinPairwise(pal, m) ==
    LET ds == {SeenDeltaE(pal[q[1]], pal[q[2]], m) :
                  q \in {r \in (1..Len(pal)) \X (1..Len(pal)) : r[1] < r[2]}}
    IN  CHOOSE d \in ds : \A e \in ds : d <= e

IsIntegerText(str) ==
    LET body == IF Len(str) > 0 /\ str[1] \in {"+", "-"} THEN Tail(str) ELSE str
    IN  Len(body) > 0 /\ \A k \in 1..Len(body) : IsDigit(body[k])

\* the request carries n=str
HasSize(params) == "n" \in DOMAIN params

\* C6: for every integer size in the request, 0, negatives and sizes above
\* the range included, the response holds exactly clamp(size, 1, MaxTarget)
\* colours.
C6_IntegerSizeClamped ==
    (pc = "responded" /\ HasSize(searchParams)
        /\ IsIntegerText(searchParams["n"])) =>
        LET size == parseInt(searchParams["n"]).value
        IN  Len(response) =
                (IF size < 1 THEN 1 ELSE IF size > MaxTarget THEN MaxTarget
                 ELSE size)

\* C7: when the size is missing or parseInt gives NaN for it, the handler
\* passes the fallback DefaultCount and the response holds exactly
\* DefaultCount colours.
C7_DefaultOnUnparsable ==
    (pc = "responded"
        /\ (~HasSize(searchParams) \/ parseInt(searchParams["n"]).nan)) =>
        n = DefaultCount /\ Len(response) = DefaultCount

\* C7 witness: a request with n=x has been answered with DefaultCount colours
C7_Witness ==
    /\ pc = "responded"
    /\ HasSize(searchParams)
    /\ searchParams["n"] = <<"x">>
    /\ Len(response) = DefaultCount

\* the whole greedy loop from a palette and a pool, under mode m
RECURSIVE GrowAll(_, _, _, _)
GrowAll(pal, cands, tgt, m) ==
    IF Len(pal) < tgt /\ Len(cands) > 0
    THEN LET i == ChosenIndex(GrowScan(cands, pal, m, 1, ScanStart))
         IN  GrowAll(Append(pal, cands[i]), Splice(cands, i), tgt, m)
    ELSE pal

\* the hex palette generatePalette builds from a sampled pool under mode m
PaletteFrom(pool, tgt, m) ==
    LET seedIndex == SeedIndex(pool, m)
    IN  MapToHex(GrowAll(<<pool[seedIndex]>>, Splice(pool, seedIndex), tgt, m))

\* C24: for a fixed mode and a fixed pool, the palette built for a target is
\* exactly the first entries of the palette built for any larger target up to
\* MaxTarget: the palette a build has returned starts with the palette of
\* every smaller target and is the start of the palette of every larger one.
C24_PrefixStableAcrossTargets ==
    pc = "done" =>
        \A t \in 1..MaxTarget :
            LET other == PaletteFrom(rawCandidates, t, mode)
            IN  /\ t <= target => other = SubSeq(result, 1, t)
                /\ t >= target => result = SubSeq(other, 1, target)

\* C24 witness: a build for two colours has ended on a pool whose seed is not
\* its first entry and from which three colours, all different, can be built
C24_Witness ==
    /\ pc = "done"
    /\ target = 2
    /\ Len(result) = 2
    /\ result[1] # rgbToHex(rawCandidates[1])
    /\ LET three == PaletteFrom(rawCandidates, 3, mode)
       IN  /\ Len(three) = 3
           /\ three[3] # three[1] /\ three[3] # three[2] /\ three[1] # three[2]
           /\ SubSeq(three, 1, 2) = result

\* the request's mode is missing or is none of the five modes
ModeMissingOrUnknown(params) ==
    ~("mode" \in DOMAIN params) \/ ~(params["mode"] \in Modes)

\* C8: a request whose mode is missing or is not one of the five modes is
\* treated as normal: the sampler keeps exactly the draws mode normal keeps,
\* and the response is the palette mode normal builds from the same pool
\* for the same size.
C8_UnknownModeAsNormal ==
    (pc = "responded" /\ ModeMissingOrUnknown(searchParams)) =>
        /\ \A c \in Draws : KeepsCandidate(c, mode) <=> KeepsCandidate(c, "normal")
        /\ response = PaletteFrom(rawCandidates, target, "normal")

\* C8 witness: a request with mode=purple answered with several colours
C8_Witness ==
    /\ pc = "responded"
    /\ "mode" \in DOMAIN searchParams
    /\ searchParams["mode"] = "purple"
    /\ Len(response) >= 2
    /\ response[1] # response[2]

(***************************************************************************)
(* Properties of distance                                                  *)
(***************************************************************************)
\* C10: distance is symmetric: distance(a, b, mode) = distance(b, a, mode)
\* for all colours a, b and every mode.
C10_Symmetric ==
    pc = "distanceDone" =>
        dResult = distance(dArgs[2], dArgs[1], dArgs[3])

\* C10 witness: distance has been taken of two different colours under a
\* simulating mode and is not 0
C10_Witness ==
    /\ pc = "distanceDone"
    /\ dArgs[1] # dArgs[2]
    /\ dArgs[3] \in {"deuteranopia", "both"}
    /\ dResult > 0

\* C11: distance(a, b, both) is the smaller of distance(a, b, normal) and
\* distance(a, b, deuteranopia); the protanopia and tritanopia distances play
\* no part in it.
C11_BothIsMinimum ==
    (pc = "distanceDone" /\ dArgs[3] = "both") =>
        LET dNormal == SeenDeltaE(dArgs[1], dArgs[2], "normal")
            dDeut   == SeenDeltaE(dArgs[1], dArgs[2], "deuteranopia")
        IN  dResult = (IF dDeut < dNormal THEN dDeut ELSE dNormal)

\* C11 witness: a both distance that is the deuteranopia distance, below the
\* normal one, while the protanopia distance of the pair is smaller still
C11_Witness ==
    /\ pc = "distanceDone"
    /\ dArgs[3] = "both"
    /\ dResult = SeenDeltaE(dArgs[1], dArgs[2], "deuteranopia")
    /\ dResult < SeenDeltaE(dArgs[1], dArgs[2], "normal")
    /\ SeenDeltaE(dArgs[1], dArgs[2], "protanopia") < dResult

=============================================================================
